---- MODULE Spec2Model ----
(***************************************************************************)
(* A model of svg-crop-api: svg_processor.py (SVGProcessor) and app.py     *)
(* (the /crop-svg handler).                                                *)
(*                                                                         *)
(* Numbers.  Python floats are modelled as exact rationals <<n, d>> with   *)
(* d > 0.  The input grids below are dyadic (integers, halves, division by *)
(* 1/2, 1, 2, 4), for which binary floating point computes the same values *)
(* as the exact arithmetic of the model.                                   *)
(*                                                                         *)
(* Exceptions.  An operator that models a function that can raise returns  *)
(* the name of the exception (a string) in place of its value.             *)
(***************************************************************************)
EXTENDS Integers, Sequences, FiniteSets, TLC

VARIABLES
    out_dir,      \* the working directory: file name |-> content
    crop_args,    \* arguments of the latest precise_crop_image call
    crop_ret,     \* its return value ("none" before any call)
    box,          \* the pixel box (x1, y1, x2, y2) it computed, or NoBox
    transform_str,   \* a transform attribute value (a sequence of characters)
    matrix_ret,      \* what parse_matrix(transform_str) did
    translate_ret,   \* what parse_transform(transform_str) did
    doc,             \* the document: whether it parses, and its elements
    output_format,   \* the requested output format
    images_downloaded,  \* the count download_all_images returned
    pc,              \* where the request is
    clip_paths,      \* extract_masks_and_crop_images: the registry
    svg_dims,        \* its svg_dims
    todo,            \* its elements_with_clip_path
    pos,             \* the position of its loop in todo
    mask_count,      \* its mask_count
    regions,         \* a log of the regions it has masked
    extract_ret,     \* what extract_masks_and_crop_images did
    result,          \* what process_svg_async returned
    response,        \* what crop_svg answered
    image_el,        \* the argument of find_transform_for_image
    found,           \* what find_transform_for_image did
    session,         \* processor.session: 0 for None, else a session number
    closed,          \* the sessions that have been closed
    made,            \* how many sessions have been created
    rpc,             \* where each concurrent run of process_svg_async is
    using,           \* the session each run has a request in flight on, or 0
    net_ok,          \* whether the servers of each run answer its requests
    n_urls,          \* the length of each run's image_urls
    img_i,           \* the position of each run's download loop
    dl_count,        \* each run's downloaded_count
    run_result,      \* what each run of process_svg_async returned
    image_urls,      \* the list extract_image_urls returned
    temp_dir,        \* the files of the downloads: name |-> the URL whose
                     \* content the file holds
    locators,        \* the image locators of the document, in order
    written,         \* for each URL the file name its download wrote, or <<>>
    dl_i,            \* the index i of the loop of download_all_images
    dl_pc            \* where the download and rewrite is

cropVars == <<out_dir, crop_args, crop_ret, box>>

parseVars == <<transform_str, matrix_ret, translate_ret>>

loopVars == <<clip_paths, svg_dims, todo, pos, mask_count, regions, extract_ret>>

runVars == <<doc, output_format, images_downloaded, pc, loopVars, result, response>>

treeVars == <<image_el, found>>

sessVars == <<session, closed, made, rpc, using, net_ok, n_urls, img_i, dl_count,
              run_result>>

dlVars == <<image_urls, temp_dir, locators, written, dl_i, dl_pc>>

vars == <<cropVars, parseVars, runVars, treeVars, sessVars, dlVars>>

----------------------------------------------------------------------------
(* Bounds of the input grids.                                              *)

MaxCoord == 2

MaxParams == 7

MaxDefs == 2

MaxElems == 2

MaxDepth == 3

NumRuns == 2

MaxImages == 2

MaxUrls == 3

----------------------------------------------------------------------------
(* Rational arithmetic: the float operations of svg_processor.py.          *)

Rat(n) == <<n, 1>>

RAdd(p, q) == <<p[1] * q[2] + q[1] * p[2], p[2] * q[2]>>

RSub(p, q) == <<p[1] * q[2] - q[1] * p[2], p[2] * q[2]>>

RMul(p, q) == <<p[1] * q[1], p[2] * q[2]>>

\* p / q for q # 0 (Python raises ZeroDivisionError for q = 0: see the callers)
RDiv(p, q) ==
    IF q[1] > 0 THEN <<p[1] * q[2], p[2] * q[1]>>
                ELSE <<-(p[1] * q[2]), -(p[2] * q[1])>>

RIsZero(p) == p[1] = 0

RLeq(p, q) == p[1] * q[2] <= q[1] * p[2]

RLess(p, q) == p[1] * q[2] < q[1] * p[2]

\* Python int(float): truncation toward zero
IntOf(p) == IF p[1] >= 0 THEN p[1] \div p[2] ELSE -((-p[1]) \div p[2])

\* floor, as the specification words the pixel box
FloorOf(p) == p[1] \div p[2]

Max2(m, n) == IF m >= n THEN m ELSE n

Min2(m, n) == IF m <= n THEN m ELSE n

----------------------------------------------------------------------------
(* File names are sequences of characters; the directory is keyed by the   *)
(* joined string.                                                          *)

RECURSIVE Str(_)
Str(chars) == IF chars = <<>> THEN "" ELSE Head(chars) \o Str(Tail(chars))

\* the largest index of a "." in chars, 0 when there is none
LastDot(chars) ==
    LET dots == {i \in 1..Len(chars) : chars[i] = "."}
    IN  IF dots = {} THEN 0 ELSE CHOOSE i \in dots : \A j \in dots : j <= i

\* image_filename.rsplit('.', 1)[0]
StemOf(chars) ==
    IF LastDot(chars) = 0 THEN chars ELSE SubSeq(chars, 1, LastDot(chars) - 1)

Exists(dir, name) == name \in DOMAIN dir

WriteFile(dir, name, content) ==
    [n \in (DOMAIN dir) \cup {name} |-> IF n = name THEN content ELSE dir[n]]

----------------------------------------------------------------------------
(* Results of calls: a returned value or a raised exception.               *)

NoRet == [status |-> "none", value |-> <<>>]

Ret(v) == [status |-> "returned", value |-> v]

Raise(e) == [status |-> "raised", value |-> <<e>>]

----------------------------------------------------------------------------
(* Strings are sequences of one-character strings.                         *)

Digits == {"0", "1", "2", "3", "4", "5", "6", "7", "8", "9"}

DigitVal(c) ==
    CASE c = "0" -> 0 [] c = "1" -> 1 [] c = "2" -> 2 [] c = "3" -> 3
      [] c = "4" -> 4 [] c = "5" -> 5 [] c = "6" -> 6 [] c = "7" -> 7
      [] c = "8" -> 8 [] c = "9" -> 9

RECURSIVE Gcd(_, _)
Gcd(m, n) == IF n = 0 THEN m ELSE Gcd(n, m % n)

Abs(n) == IF n < 0 THEN -n ELSE n

\* the rational n/d (d > 0) in lowest terms
Norm(n, d) == LET g == Gcd(Abs(n), d) IN <<n \div g, d \div g>>

RECURSIVE Pow10(_)
Pow10(k) == IF k = 0 THEN 1 ELSE 10 * Pow10(k - 1)

RECURSIVE DigitsVal(_)
DigitsVal(ds) ==
    IF ds = <<>> THEN 0
    ELSE 10 * DigitsVal(SubSeq(ds, 1, Len(ds) - 1)) + DigitVal(ds[Len(ds)])

\* Python float(token) for a token without whitespace: an optional sign,
\* digits with at most one ".", at least one digit; ValueError otherwise.
\* (Exponents and the spellings inf and nan do not occur in the inputs.)
ParseFloat(token) ==
    LET signed == token # <<>> /\ Head(token) \in {"-", "+"}
        body   == IF signed THEN Tail(token) ELSE token
        dots   == {i \in 1..Len(body) : body[i] = "."}
        digs   == SelectSeq(body, LAMBDA c : c \in Digits)
        frac   == IF dots = {} THEN 0
                  ELSE Len(body) - (CHOOSE i \in dots : TRUE)
    IN  IF \/ Cardinality(dots) > 1
           \/ digs = <<>>
           \/ \E i \in 1..Len(body) : body[i] \notin Digits \cup {"."}
        THEN Raise("ValueError")
        ELSE Ret(Norm((IF signed /\ Head(token) = "-" THEN -1 ELSE 1)
                        * DigitsVal(digs), Pow10(frac)))

\* needle occurs in hay at position i
OccursAt(hay, needle, i) ==
    /\ i >= 1
    /\ i + Len(needle) - 1 <= Len(hay)
    /\ SubSeq(hay, i, i + Len(needle) - 1) = needle

\* Python: needle in hay
Contains(hay, needle) == \E i \in 1..Len(hay) + 1 : OccursAt(hay, needle, i)

\* str.replace(",", " ")
ReplaceCommas(s) == [i \in 1..Len(s) |-> IF s[i] = "," THEN " " ELSE s[i]]

\* str.split(): the maximal runs of non-blank characters
RECURSIVE Split(_)
Split(s) ==
    IF s = <<>> THEN <<>>
    ELSE IF Head(s) = " " THEN Split(Tail(s))
    ELSE LET blanks == {i \in 1..Len(s) : s[i] = " "}
             stop   == IF blanks = {} THEN Len(s) + 1
                       ELSE CHOOSE i \in blanks : \A j \in blanks : i <= j
         IN  <<SubSeq(s, 1, stop - 1)>> \o Split(SubSeq(s, stop, Len(s)))

MatrixWord == <<"m", "a", "t", "r", "i", "x">>

\* re.search(open + r"([^)]+)\)", s): group 1 of the leftmost match, as
\* <<group>>, or <<>> when nothing matches
GroupAfter(s, open) ==
    LET closeAt(i) == {j \in i + Len(open)..Len(s) : s[j] = ")"}
        first(i) == CHOOSE j \in closeAt(i) : \A k \in closeAt(i) : j <= k
        starts  == {i \in 1..Len(s) :
                       /\ OccursAt(s, open, i)
                       /\ closeAt(i) # {}
                       /\ first(i) > i + Len(open)}
    IN  IF starts = {} THEN <<>>
        ELSE LET i == CHOOSE k \in starts : \A l \in starts : k <= l
             IN  <<SubSeq(s, i + Len(open), first(i) - 1)>>

\* re.search(r"matrix\(([^)]+)\)", s)
MatrixGroup(s) == GroupAfter(s, MatrixWord \o <<"(">>)

\* [float(p) for p in tokens]: the list of values, or the first ValueError
RECURSIVE Floats(_)
Floats(tokens) ==
    IF tokens = <<>> THEN Ret(<<>>)
    ELSE LET h == ParseFloat(Head(tokens))
         IN  IF h.status = "raised" THEN h
             ELSE LET t == Floats(Tail(tokens))
                  IN  IF t.status = "raised" THEN t
                      ELSE Ret(<<h.value>> \o t.value)

Identity == <<Rat(1), Rat(0), Rat(0), Rat(1), Rat(0), Rat(0)>>

\* parts = [float(p) for p in match.group(1).replace(",", " ").split()]
MatrixParts(s) == Floats(Split(ReplaceCommas(MatrixGroup(s)[1])))

parse_matrix(s) ==
    IF MatrixGroup(s) = <<>> THEN Ret(Identity)
    ELSE LET parts == MatrixParts(s)
         IN  IF parts.status = "raised" THEN parts
             ELSE IF Len(parts.value) = 6 THEN Ret(parts.value)
             ELSE Ret(Identity)

parse_transform(s) ==
    IF MatrixGroup(s) = <<>> THEN Ret(<<Rat(0), Rat(0)>>)
    ELSE LET parts == MatrixParts(s)
         IN  IF parts.status = "raised" THEN parts
             ELSE IF Len(parts.value) = 6
                  THEN Ret(<<parts.value[5], parts.value[6]>>)
             ELSE Ret(<<Rat(0), Rat(0)>>)

----------------------------------------------------------------------------
(* precise_crop_image                                                      *)

NoBox == <<>>

\* "png" if output_format == "png" else "jpeg"
FileExt(fmt) == IF fmt = "png" THEN "png" ELSE "jpeg"

\* mutant: the region index is left out of the name
CropFilename_NoIndex(region_idx, image_filename, fmt) ==
    "crop_region" \o "_" \o Str(StemOf(image_filename)) \o "." \o FileExt(fmt)

CropFilename(region_idx, image_filename, fmt) ==
    "crop_region" \o ToString(region_idx) \o "_" \o Str(StemOf(image_filename))
        \o "." \o FileExt(fmt)

\* mutant: the image's own placement offset is not subtracted
FinalRect_NoOffset(clip_rect, m, image_attrs, size) ==
    LET group_clip_x == RDiv(RSub(clip_rect[1], m[5]), m[1])
        group_clip_y == RDiv(RSub(clip_rect[2], m[6]), m[4])
        group_clip_w == RDiv(clip_rect[3], m[1])
        group_clip_h == RDiv(clip_rect[4], m[4])
        scale_x      == RDiv(Rat(size[1]), image_attrs[3])
        scale_y      == RDiv(Rat(size[2]), image_attrs[4])
    IN  <<RMul(group_clip_x, scale_x), RMul(group_clip_y, scale_y),
          RMul(group_clip_w, scale_x), RMul(group_clip_h, scale_y)>>

\* final_x, final_y, final_w, final_h for non-zero a, d, img_width, img_height
FinalRect(clip_rect, m, image_attrs, size) ==
    LET group_clip_x == RDiv(RSub(clip_rect[1], m[5]), m[1])
        group_clip_y == RDiv(RSub(clip_rect[2], m[6]), m[4])
        group_clip_w == RDiv(clip_rect[3], m[1])
        group_clip_h == RDiv(clip_rect[4], m[4])
        img_crop_x   == RSub(group_clip_x, image_attrs[1])
        img_crop_y   == RSub(group_clip_y, image_attrs[2])
        scale_x      == RDiv(Rat(size[1]), image_attrs[3])
        scale_y      == RDiv(Rat(size[2]), image_attrs[4])
    IN  <<RMul(img_crop_x, scale_x), RMul(img_crop_y, scale_y),
          RMul(group_clip_w, scale_x), RMul(group_clip_h, scale_y)>>

\* mutant: the upper corner is not clamped to the raster
UpperEdge_NoClamp(orig, final, extent) == IntOf(RAdd(final, extent))

\* the upper corner coordinate: min(orig, int(final + extent))
UpperEdge(orig, final, extent) == Min2(orig, IntOf(RAdd(final, extent)))

\* the lower corner coordinate: max(0, int(final))
LowerEdge(final) == Max2(0, IntOf(final))

PixelBox(clip_rect, m, image_attrs, size) ==
    LET f == FinalRect(clip_rect, m, image_attrs, size)
    IN  <<LowerEdge(f[1]), LowerEdge(f[2]),
          UpperEdge(size[1], f[1], f[3]), UpperEdge(size[2], f[2], f[4])>>

\* mutant: "and" in place of "or"
InvalidBox_And(b) == b[3] <= b[1] /\ b[4] <= b[2]

\* if x2 <= x1 or y2 <= y1: return False
InvalidBox(b) == b[3] <= b[1] \/ b[4] <= b[2]

\* The whole call: [ret, box, dir], ret being "True" or "False".
\* ZeroDivisionError is caught by the function's own except clause and
\* becomes the return value False.
precise_crop_image(dir, a) ==
    LET name == Str(a.image_filename)
        m    == a.transform_matrix
    IN  IF ~Exists(dir, name)
        THEN [ret |-> "False", box |-> NoBox, dir |-> dir]
        ELSE IF RIsZero(m[1]) \/ RIsZero(m[4])
        THEN [ret |-> "False", box |-> NoBox, dir |-> dir]
        ELSE IF RIsZero(a.image_attrs[3]) \/ RIsZero(a.image_attrs[4])
        THEN [ret |-> "False", box |-> NoBox, dir |-> dir]
        ELSE LET b == PixelBox(a.clip_rect, m, a.image_attrs, dir[name].size)
             IN  IF InvalidBox(b)
                 THEN [ret |-> "False", box |-> b, dir |-> dir]
                 ELSE [ret |-> "True", box |-> b,
                       dir |-> WriteFile(dir,
                                 CropFilename(a.region_idx, a.image_filename,
                                              a.output_format),
                                 [kind |-> "crop", source |-> name, box |-> b,
                                  region |-> a.region_idx,
                                  ext |-> FileExt(a.output_format)])]

----------------------------------------------------------------------------
(* The element tree.  A document is the sequence of its elements in        *)
(* document order; each element has a tag <<namespace, local name>>, the   *)
(* index of its parent (0 for the root, element 1) and its attributes, a   *)
(* function from attribute names to strings.                               *)

\* "{http://www.w3.org/2000/svg}local"
Tag(local) == <<"svg", local>>

Node(local, parent, attrs) == [tag |-> Tag(local), parent |-> parent, attrs |-> attrs]

\* tag.endswith('}g')
EndsWithG(tag) == tag[1] # "" /\ tag[2] = "g"

HasAttr(el, name) == name \in DOMAIN el.attrs

\* el.get(name, default)
Get(el, name, default) == IF HasAttr(el, name) THEN el.attrs[name] ELSE default

RECURSIVE InSubtree(_, _, _)
InSubtree(nodes, top, j) ==
    /\ nodes[j].parent # 0
    /\ \/ nodes[j].parent = top
       \/ InSubtree(nodes, top, nodes[j].parent)

RECURSIVE Ascending(_)
Ascending(S) ==
    IF S = {} THEN <<>>
    ELSE LET m == CHOOSE x \in S : \A y \in S : x <= y
         IN  <<m>> \o Ascending(S \ {m})

\* top.findall(".//svg:local"): the descendants with that tag, in document order
FindAll(nodes, top, local) ==
    Ascending({j \in 1..Len(nodes) :
                  InSubtree(nodes, top, j) /\ nodes[j].tag = Tag(local)})

\* top.find(".//svg:local"): the first such descendant, 0 for None
FindFirst(nodes, top, local) ==
    IF FindAll(nodes, top, local) = <<>> THEN 0 ELSE FindAll(nodes, top, local)[1]

\* top.find("svg:local"): the first child with that tag, 0 for None
FindChild(nodes, top, local) ==
    LET kids == {j \in 1..Len(nodes) :
                    nodes[j].parent = top /\ nodes[j].tag = Tag(local)}
    IN  IF kids = {} THEN 0 ELSE Ascending(kids)[1]

\* root.findall(".//*[@name]")
FindAllWithAttr(nodes, top, name) ==
    Ascending({j \in 1..Len(nodes) :
                  InSubtree(nodes, top, j) /\ HasAttr(nodes[j], name)})

build_parent_map(nodes) ==
    [j \in {k \in 1..Len(nodes) : nodes[k].parent # 0} |-> nodes[j].parent]

\* the while loop of find_transform_for_image, from current upward
RECURSIVE find_transform_for_image(_, _, _)
find_transform_for_image(nodes, current, parent_map) ==
    IF current \notin DOMAIN parent_map THEN Ret(Identity)
    ELSE LET parent == parent_map[current]
             ts     == Get(nodes[parent], "transform", <<>>)
         IN  IF EndsWithG(nodes[parent].tag) /\ ts # <<>>
                   /\ Contains(ts, MatrixWord)
             THEN parse_matrix(ts)
             ELSE find_transform_for_image(nodes, parent, parent_map)

\* str.strip() of blanks
RECURSIVE Strip(_)
Strip(s) ==
    IF s = <<>> THEN s
    ELSE IF Head(s) = " " THEN Strip(Tail(s))
    ELSE IF s[Len(s)] = " " THEN Strip(SubSeq(s, 1, Len(s) - 1))
    ELSE s

\* float(el.get(name, default)): dflt is the outcome of float(default)
FloatAttr(el, name, dflt) ==
    IF HasAttr(el, name) THEN ParseFloat(Strip(el.attrs[name])) ELSE dflt

\* a / b in lowest terms
NormR(p) == Norm(p[1], p[2])

\* Python round(float): to the nearest integer, ties to the even one
RoundOf(p) ==
    LET lo == FloorOf(p)
        twice == RSub(RMul(Rat(2), p), Rat(2 * lo))
    IN  IF RLess(twice, Rat(1)) THEN lo
        ELSE IF RLess(Rat(1), twice) THEN lo + 1
        ELSE IF lo % 2 = 0 THEN lo ELSE lo + 1

\* svg_dims = (int(h), int(w)) from viewBox, else from width and height
SvgDims(root) ==
    IF HasAttr(root, "viewBox") /\ root.attrs["viewBox"] # <<>>
    THEN LET fs == Floats(Split(root.attrs["viewBox"]))
         IN  IF fs.status = "raised" THEN fs
             ELSE IF Len(fs.value) # 4 THEN Raise("ValueError")
             ELSE Ret(<<IntOf(fs.value[4]), IntOf(fs.value[3])>>)
    ELSE LET w == FloatAttr(root, "width", Ret(Rat(1000)))
             h == FloatAttr(root, "height", Ret(Rat(1000)))
         IN  IF w.status = "raised" THEN w
             ELSE IF h.status = "raised" THEN h
             ELSE Ret(<<IntOf(h.value), IntOf(w.value)>>)

\* the registry with one more entry
Register(reg, id, rect) ==
    [k \in (DOMAIN reg) \cup {id} |-> IF k = id THEN rect ELSE reg[k]]

\* mutant: a missing or non-numeric attribute counts as 0 instead of
\* skipping the definition
RegisterDef_Default(reg, nodes, el) ==
    LET clip_id == Get(nodes[el], "id", <<>>)
        rect_el == FindChild(nodes, el, "rect")
        num(name) == LET f == FloatAttr(nodes[rect_el], name, Ret(Rat(0)))
                     IN  IF f.status = "raised" THEN Rat(0) ELSE f.value
        t == parse_transform(Get(nodes[rect_el], "transform", <<>>))
        tr == IF t.status = "raised" THEN <<Rat(0), Rat(0)>> ELSE t.value
    IN  IF clip_id = <<>> \/ rect_el = 0 THEN reg
        ELSE Register(reg, clip_id,
                      <<NormR(RAdd(num("x"), tr[1])), NormR(RAdd(num("y"), tr[2])),
                        num("width"), num("height")>>)

\* one iteration of the clipPath loop (lines 296-314): ValueError and
\* TypeError are caught and the definition is skipped
RegisterDef(reg, nodes, el) ==
    LET clip_id == Get(nodes[el], "id", <<>>)
        rect_el == FindChild(nodes, el, "rect")
        x == FloatAttr(nodes[rect_el], "x", Ret(Rat(0)))
        y == FloatAttr(nodes[rect_el], "y", Ret(Rat(0)))
        width == FloatAttr(nodes[rect_el], "width", Raise("TypeError"))
        height == FloatAttr(nodes[rect_el], "height", Raise("TypeError"))
        t == parse_transform(Get(nodes[rect_el], "transform", <<>>))
    IN  IF clip_id = <<>> \/ rect_el = 0 THEN reg
        ELSE IF \/ x.status = "raised" \/ y.status = "raised"
                \/ width.status = "raised" \/ height.status = "raised"
                \/ t.status = "raised"
        THEN reg
        ELSE Register(reg, clip_id,
                      <<NormR(RAdd(x.value, t.value[1])),
                        NormR(RAdd(y.value, t.value[2])),
                        width.value, height.value>>)

\* the clipPath loop over the definitions els, from registry reg
RECURSIVE ClipPaths(_, _, _)
ClipPaths(reg, nodes, els) ==
    IF els = <<>> THEN reg
    ELSE ClipPaths(RegisterDef(reg, nodes, Head(els)), nodes, Tail(els))

UrlOpen == <<"u", "r", "l", "(", "#">>

\* re.search(r"url\(#([^)]+)\)", clip_path_url): <<clip_id>> or <<>>
ClipRef(el) == GroupAfter(Get(el, "clip-path", <<>>), UrlOpen)

MaskFilename(count) == "mask_region" \o ToString(count) \o ".png"

\* the mask of lines 329-335
Mask(dims, rect, el, count) ==
    [kind |-> "mask", dims |-> dims,
     pt1 |-> <<RoundOf(rect[1]), RoundOf(rect[2])>>,
     pt2 |-> <<RoundOf(RAdd(rect[1], rect[3])), RoundOf(RAdd(rect[2], rect[4]))>>,
     element |-> el, region |-> count]

\* One iteration of the loop over elements_with_clip_path (lines 320-358)
\* for element el: [dir, mask_count, raised, masked, crop], crop being the
\* precise_crop_image call made (its arguments and result) or <<>>.
\* float() of the image attributes and find_transform_for_image run outside
\* any try block: their ValueError leaves the loop and the function.
ProcessRegion(dir, nodes, el, registry, dims, count, fmt) ==
    LET ref == ClipRef(nodes[el])
        skip == [dir |-> dir, mask_count |-> count, raised |-> FALSE,
                 masked |-> FALSE, crop |-> <<>>]
    IN  IF ref = <<>> THEN skip
        ELSE IF ref[1] \notin DOMAIN registry THEN skip
        ELSE
        LET rect == registry[ref[1]]
            dir1 == WriteFile(dir, MaskFilename(count),
                              Mask(dims, rect, el, count))
            img == FindFirst(nodes, el, "image")
            \* "href" stands for "{http://www.w3.org/1999/xlink}href"
            image_href == Get(nodes[img], "href", <<>>)
            img_x == FloatAttr(nodes[img], "x", Ret(Rat(0)))
            img_y == FloatAttr(nodes[img], "y", Ret(Rat(0)))
            img_width == FloatAttr(nodes[img], "width", Ret(Rat(0)))
            img_height == FloatAttr(nodes[img], "height", Ret(Rat(0)))
            transform_matrix ==
                find_transform_for_image(nodes, img, build_parent_map(nodes))
            args == [image_filename   |-> image_href,
                     clip_rect        |-> rect,
                     transform_matrix |-> transform_matrix.value,
                     image_attrs      |-> <<img_x.value, img_y.value,
                                            img_width.value, img_height.value>>,
                     region_idx       |-> count,
                     output_format    |-> fmt]
            call == precise_crop_image(dir1, args)
            counted == [dir |-> dir1, mask_count |-> count + 1,
                        raised |-> FALSE, masked |-> TRUE, crop |-> <<>>]
        IN  IF img = 0 THEN counted
            ELSE IF image_href = <<>> THEN counted
            ELSE IF \/ img_x.status = "raised" \/ img_y.status = "raised"
                    \/ img_width.status = "raised" \/ img_height.status = "raised"
                    \/ transform_matrix.status = "raised"
            THEN [dir |-> dir1, mask_count |-> count, raised |-> TRUE,
                  masked |-> TRUE, crop |-> <<>>]
            ELSE [dir |-> call.dir, mask_count |-> count + 1,
                  raised |-> FALSE, masked |-> TRUE,
                  crop |-> <<[args |-> args, ret |-> call.ret, box |-> call.box]>>]

----------------------------------------------------------------------------
(* SpecCrop: precise_crop_image on a grid of arguments.                    *)

Half == <<1, 2>>

Scales == {Rat(-1), Rat(0), Half, Rat(2)}

ClipPos == {Rat(n) : n \in -MaxCoord..MaxCoord}

ClipLen == {Rat(n) : n \in 1..MaxCoord}

ImgLen == {Rat(0), Rat(2), Rat(4)}

RasterName == <<"a", ".", "p", "n", "g">>

Raster(w, h) == [kind |-> "raster", size |-> <<w, h>>]

\* the concrete scenario of the specification's section 8
ScenarioArgs ==
    [image_filename   |-> RasterName,
     clip_rect        |-> <<Rat(150), Rat(100), Rat(50), Rat(50)>>,
     transform_matrix |-> <<Half, Rat(0), Rat(0), Half, Rat(100), Rat(50)>>,
     image_attrs      |-> <<Rat(0), Rat(0), Rat(200), Rat(200)>>,
     region_idx       |-> 0,
     output_format    |-> "png"]

ScenarioDir == (Str(RasterName) :> Raster(400, 400))

GridArgs ==
    { [image_filename   |-> RasterName,
       clip_rect        |-> <<cx, cy, cw, Rat(2)>>,
       transform_matrix |-> <<a, Rat(0), Rat(0), d, tx, Rat(0)>>,
       image_attrs      |-> <<ix, Rat(0), iw, ih>>,
       region_idx       |-> 0,
       output_format    |-> "png"] :
        cx \in ClipPos, cy \in ClipPos, cw \in ClipLen,
        a \in Scales, d \in Scales, tx \in {Rat(0), Rat(1)},
        ix \in {Rat(0), Rat(1)}, iw \in ImgLen, ih \in ImgLen }

\* a coarser grid for the other output format and for the missing raster
CoarseArgs ==
    { [image_filename   |-> RasterName,
       clip_rect        |-> <<cx, cy, Rat(2), Rat(2)>>,
       transform_matrix |-> <<a, Rat(0), Rat(0), Half, Rat(0), Rat(0)>>,
       image_attrs      |-> <<Rat(0), Rat(0), Rat(4), ih>>,
       region_idx       |-> idx,
       output_format    |-> fmt] :
        cx \in ClipPos, cy \in ClipPos, a \in Scales, ih \in ImgLen,
        idx \in 0..1, fmt \in {"png", "jpeg"} }

GridDir == (Str(RasterName) :> Raster(3, 3))

\* the empty working directory: the raster is missing
EmptyDir == <<>>

NoArgs == [image_filename |-> <<>>]

IdleCrop ==
    /\ out_dir = EmptyDir
    /\ crop_args = NoArgs
    /\ crop_ret = "none"
    /\ box = NoBox

IdleParse ==
    /\ transform_str = <<>>
    /\ matrix_ret = NoRet
    /\ translate_ret = NoRet

NoDoc == [parses |-> FALSE, nodes |-> <<>>]

NoResult == [status |-> "none"]

NoResponse == [status |-> 0]

IdleLoop ==
    /\ clip_paths = <<>>
    /\ svg_dims = <<>>
    /\ todo = <<>>
    /\ pos = 0
    /\ mask_count = 0
    /\ regions = <<>>
    /\ extract_ret = NoRet

IdleRun ==
    /\ doc = NoDoc
    /\ output_format = "png"
    /\ images_downloaded = 0
    /\ pc = "idle"
    /\ IdleLoop
    /\ result = NoResult
    /\ response = NoResponse

IdleTree ==
    /\ image_el = 0
    /\ found = NoRet

IdleSess ==
    /\ session = 0
    /\ closed = {}
    /\ made = 0
    /\ rpc = <<>>
    /\ using = <<>>
    /\ net_ok = <<>>
    /\ n_urls = <<>>
    /\ img_i = <<>>
    /\ dl_count = <<>>
    /\ run_result = <<>>

IdleDl ==
    /\ image_urls = <<>>
    /\ temp_dir = <<>>
    /\ locators = <<>>
    /\ written = <<>>
    /\ dl_i = 0
    /\ dl_pc = "idle"

InitCrop ==
    /\ IdleParse
    /\ IdleRun
    /\ IdleTree
    /\ IdleSess
    /\ IdleDl
    /\ crop_ret = "none"
    /\ box = NoBox
    /\ \/ crop_args \in GridArgs /\ out_dir = GridDir
       \/ crop_args \in CoarseArgs /\ out_dir \in {GridDir, EmptyDir}
       \/ crop_args = ScenarioArgs /\ out_dir = ScenarioDir

CallPreciseCropImage ==
    /\ crop_ret = "none"
    /\ LET r == precise_crop_image(out_dir, crop_args)
       IN  /\ crop_ret' = r.ret
           /\ box' = r.box
           /\ out_dir' = r.dir
    /\ UNCHANGED <<crop_args, parseVars, runVars, treeVars, sessVars, dlVars>>

NextCrop == CallPreciseCropImage

SpecCrop == InitCrop /\ [][NextCrop]_vars

----------------------------------------------------------------------------
(* SpecParse: parse_matrix and parse_transform on a family of attribute    *)
(* values.                                                                 *)

ValueTokens == {<<"1">>, <<"-", "0", ".", "5">>, <<"x">>}

Separators == {<<",">>, <<" ">>}

RECURSIVE Join(_, _)
Join(tokens, sep) ==
    IF tokens = <<>> THEN <<>>
    ELSE IF Len(tokens) = 1 THEN tokens[1]
    ELSE tokens[1] \o sep \o Join(Tail(tokens), sep)

TokenLists == UNION {[1..n -> ValueTokens] : n \in 0..MaxParams}

TranslateCall == <<"t", "r", "a", "n", "s", "l", "a", "t", "e", "(", "2", ")", " ">>

TransformStrings ==
    { MatrixWord \o <<"(">> \o Join(ts, sep) \o <<")">> :
        ts \in TokenLists, sep \in Separators }
    \cup { pre \o MatrixWord \o mid \o Join(ts, <<",">>) \o post :
             pre \in {<<>>, TranslateCall}, mid \in {<<>>, <<"(">>, <<" ", "(">>},
             post \in {<<>>, <<")">>, <<")", ")">>},
             ts \in {t \in TokenLists : Len(t) \in {0, 1}}
                    \cup {<<<<"1">>, <<"0">>, <<"0">>, <<"1">>, <<"2">>, <<"3">>>>} }
    \cup { <<>>, TranslateCall }

InitParse ==
    /\ IdleCrop
    /\ IdleRun
    /\ IdleTree
    /\ IdleSess
    /\ IdleDl
    /\ transform_str \in TransformStrings
    /\ matrix_ret = NoRet
    /\ translate_ret = NoRet

CallParseMatrix ==
    /\ matrix_ret.status = "none"
    /\ matrix_ret' = parse_matrix(transform_str)
    /\ UNCHANGED <<transform_str, translate_ret, cropVars, runVars, treeVars, sessVars, dlVars>>

CallParseTransform ==
    /\ translate_ret.status = "none"
    /\ translate_ret' = parse_transform(transform_str)
    /\ UNCHANGED <<transform_str, matrix_ret, cropVars, runVars, treeVars, sessVars, dlVars>>

NextParse == CallParseMatrix \/ CallParseTransform

SpecParse == InitParse /\ [][NextParse]_vars

----------------------------------------------------------------------------
(* The families of documents.                                              *)

Chars1 == <<"1">>

Num0 == <<"0">>

Num2 == <<"2">>

Num4 == <<"4">>

Num9 == <<"9">>

NumHalf == <<"0", ".", "5">>

NotANumber == <<"x">>

Id1 == <<"c", "1">>

Id2 == <<"c", "2">>

Url(id) == UrlOpen \o id \o <<")">>

MatrixOf(tokens) == MatrixWord \o <<"(">> \o Join(tokens, <<" ">>) \o <<")">>

ScaleHalf == MatrixOf(<<NumHalf, Num0, Num0, NumHalf, Chars1, Num0>>)

ShiftRight == MatrixOf(<<Chars1, Num0, Num0, Chars1, Chars1, NumHalf>>)

ScaleZero == MatrixOf(<<Num0, Num0, Num0, Chars1, Num0, Num0>>)

BadMatrix == MatrixOf(<<NotANumber>>)

MissingRasterName == <<"b", ".", "p", "n", "g">>

\* a fragment: elements whose parent is the container (up = 0) or an
\* earlier element of the fragment (up = its position)
Part(local, up, attrs) == [local |-> local, up |-> up, attrs |-> attrs]

NoAttrs == <<>>

GoodRect ==
    ("x" :> Num0) @@ ("y" :> Num0) @@ ("width" :> Num2) @@ ("height" :> Num2)

ClipDef(id, rects) == <<Part("clipPath", 0, ("id" :> id))>> \o rects

DefKinds ==
    { ClipDef(Id1, <<Part("rect", 1, GoodRect)>>),
      ClipDef(Id2, <<Part("rect", 1,
                 ("x" :> Chars1) @@ ("width" :> Num2) @@ ("height" :> Num2)
                    @@ ("transform" :> ShiftRight))>>),
      ClipDef(Id1, <<Part("rect", 1,
                 ("x" :> Num9) @@ ("y" :> Num9) @@ ("width" :> Num2)
                    @@ ("height" :> Num2))>>),
      ClipDef(Id2, <<Part("rect", 1,
                 ("x" :> Num0) @@ ("y" :> Num0) @@ ("height" :> Num2))>>),
      ClipDef(Id1, <<Part("rect", 1,
                 ("x" :> NotANumber) @@ ("width" :> Num2) @@ ("height" :> Num2))>>),
      ClipDef(Id2, <<>>),
      ClipDef(Id1, <<Part("rect", 1, GoodRect @@ ("transform" :> BadMatrix))>>) }

GoodImage ==
    ("href" :> RasterName) @@ ("x" :> Num0) @@ ("y" :> Num0)
        @@ ("width" :> Num4) @@ ("height" :> Num4)

Clipped(id) == Part("g", 0, ("clip-path" :> Url(id)))

ElemKinds ==
    { <<Clipped(Id1), Part("image", 1, GoodImage)>>,
      <<Clipped(Id2), Part("g", 1, ("transform" :> ScaleHalf)),
        Part("image", 2, GoodImage)>>,
      <<Clipped(Id1), Part("rect", 1, GoodRect)>>,
      <<Clipped(Id1), Part("image", 1, ("href" :> MissingRasterName) @@ GoodImage)>>,
      <<Clipped(Id2), Part("g", 1, ("transform" :> ScaleZero)),
        Part("image", 2, GoodImage)>>,
      <<Clipped(Id1), Part("image", 1, ("width" :> NotANumber) @@ GoodImage)>>,
      <<Clipped(Id2), Part("g", 1, ("transform" :> BadMatrix)),
        Part("image", 2, GoodImage)>>,
      <<Part("g", 0, ("clip-path" :> Id1)), Part("image", 1, GoodImage)>>,
      <<Clipped(Id1), Part("image", 1,
            ("href" :> RasterName) @@ ("height" :> Num4))>> }

SeqsUpTo(S, n) == UNION {[1..k -> S] : k \in 0..n}

Attach(nodes, container, frag) ==
    nodes \o [i \in 1..Len(frag) |->
                Node(frag[i].local,
                     IF frag[i].up = 0 THEN container ELSE Len(nodes) + frag[i].up,
                     frag[i].attrs)]

RECURSIVE AttachAll(_, _, _)
AttachAll(nodes, container, frags) ==
    IF frags = <<>> THEN nodes
    ELSE AttachAll(Attach(nodes, container, Head(frags)), container, Tail(frags))

ViewBox == <<"0", " ", "0", " ", "8", " ", "8">>

MkDoc(defs, elems) ==
    LET base == <<Node("svg", 0, ("viewBox" :> ViewBox)), Node("defs", 1, NoAttrs)>>
    IN  [parses |-> TRUE, nodes |-> AttachAll(AttachAll(base, 2, defs), 1, elems)]

FixedDefs ==
    { <<ClipDef(Id1, <<Part("rect", 1, GoodRect)>>),
        ClipDef(Id2, <<Part("rect", 1,
                 ("x" :> Chars1) @@ ("width" :> Num2) @@ ("height" :> Num2)
                    @@ ("transform" :> ShiftRight))>>)>>,
      <<ClipDef(Id1, <<Part("rect", 1,
                 ("x" :> Num9) @@ ("y" :> Num9) @@ ("width" :> Num2)
                    @@ ("height" :> Num2))>>),
        ClipDef(Id2, <<Part("rect", 1,
                 ("x" :> Num0) @@ ("y" :> Num0) @@ ("height" :> Num2))>>)>> }

FixedElems ==
    { <<<<Clipped(Id1), Part("image", 1, GoodImage)>>,
        <<Clipped(Id2), Part("g", 1, ("transform" :> ScaleHalf)),
          Part("image", 2, GoodImage)>>>> }

Docs ==
    { MkDoc(ds, es) : ds \in SeqsUpTo(DefKinds, MaxDefs), es \in FixedElems }
    \cup { MkDoc(ds, es) : ds \in FixedDefs, es \in SeqsUpTo(ElemKinds, MaxElems) }
    \cup { NoDoc }

\* the working directory after the downloads: one raster of 8 x 8 pixels
WorkDir == (Str(RasterName) :> Raster(8, 8))

----------------------------------------------------------------------------
(* Spec: one /crop-svg request, from the call of                           *)
(* extract_masks_and_crop_images (the document has been downloaded and its *)
(* image locators rewritten to local file names) to the response.          *)

Init ==
    /\ IdleParse
    /\ IdleTree
    /\ IdleSess
    /\ IdleDl
    /\ IdleLoop
    /\ doc \in Docs
    /\ output_format \in {"png", "jpeg"}
    /\ out_dir = WorkDir
    /\ images_downloaded = 1
    /\ crop_args = NoArgs
    /\ crop_ret = "none"
    /\ box = NoBox
    /\ pc = "extract"
    /\ result = NoResult
    /\ response = NoResponse

\* lines 275-318: parse, svg_dims, the registry, elements_with_clip_path
ExtractStart ==
    /\ pc = "extract"
    /\ IF ~doc.parses
       THEN /\ pc' = "returned"
            /\ extract_ret' = Ret(<<0>>)
            /\ UNCHANGED <<clip_paths, svg_dims, todo, pos>>
       ELSE LET dims == SvgDims(doc.nodes[1])
            IN  IF dims.status = "raised"
                THEN /\ pc' = "raised"
                     /\ extract_ret' = dims
                     /\ UNCHANGED <<clip_paths, svg_dims, todo, pos>>
                ELSE /\ pc' = "loop"
                     /\ svg_dims' = dims.value
                     /\ clip_paths' = ClipPaths(<<>>, doc.nodes,
                                                FindAll(doc.nodes, 1, "clipPath"))
                     /\ todo' = FindAllWithAttr(doc.nodes, 1, "clip-path")
                     /\ pos' = 1
                     /\ UNCHANGED extract_ret
    /\ UNCHANGED <<mask_count, regions, doc, output_format, images_downloaded,
                   result, response, cropVars, parseVars, treeVars, sessVars, dlVars>>

\* lines 320-358: one element of elements_with_clip_path
ProcessElement ==
    /\ pc = "loop"
    /\ pos <= Len(todo)
    /\ LET r == ProcessRegion(out_dir, doc.nodes, todo[pos], clip_paths,
                              svg_dims, mask_count, output_format)
       IN  /\ out_dir' = r.dir
           /\ mask_count' = r.mask_count
           /\ regions' =
                IF r.masked
                THEN Append(regions,
                            [element |-> todo[pos], index |-> mask_count,
                             crop |-> IF Len(r.crop) = 0 THEN "none"
                                      ELSE r.crop[1].ret])
                ELSE regions
           /\ IF r.raised
              THEN pc' = "raised" /\ extract_ret' = Raise("ValueError")
              ELSE UNCHANGED <<pc, extract_ret>>
           /\ IF Len(r.crop) = 0
              THEN UNCHANGED <<crop_args, crop_ret, box>>
              ELSE /\ crop_args' = r.crop[1].args
                   /\ crop_ret' = r.crop[1].ret
                   /\ box' = r.crop[1].box
    /\ pos' = pos + 1
    /\ UNCHANGED <<clip_paths, svg_dims, todo, doc, output_format,
                   images_downloaded, result, response, parseVars, treeVars, sessVars, dlVars>>

\* line 360: return mask_count
ExtractReturn ==
    /\ pc = "loop"
    /\ pos > Len(todo)
    /\ pc' = "returned"
    /\ extract_ret' = Ret(<<mask_count>>)
    /\ UNCHANGED <<clip_paths, svg_dims, todo, pos, mask_count, regions, doc,
                   output_format, images_downloaded, result, response,
                   cropVars, parseVars, treeVars, sessVars, dlVars>>

Failure(error) ==
    [status |-> "returned", success |-> FALSE, error |-> error,
     regions_processed |-> 0, images_downloaded |-> 0]

\* process_svg_async, lines 385-398: the result dictionary
ProcessSvgResult(ret, downloaded) ==
    IF ret.status = "raised" THEN Failure(ret.value[1])
    ELSE IF ret.value[1] = 0 THEN Failure("No regions processed")
    ELSE [status |-> "returned", success |-> TRUE, error |-> "",
          regions_processed |-> ret.value[1], images_downloaded |-> downloaded]

ProcessSvgFinish ==
    /\ pc \in {"returned", "raised"}
    /\ result' = ProcessSvgResult(extract_ret, images_downloaded)
    /\ pc' = "result"
    /\ UNCHANGED <<loopVars, doc, output_format, images_downloaded, response,
                   cropVars, parseVars, treeVars, sessVars, dlVars>>

\* temp_dir.glob(f"crop_region*.{output_format}")
GlobCrops(dir, fmt) ==
    {n \in DOMAIN dir : dir[n].kind = "crop" /\ dir[n].ext = fmt}

\* temp_dir.glob("mask_region*.png")
GlobMasks(dir) == {n \in DOMAIN dir : dir[n].kind = "mask"}

HttpError(code, detail) ==
    [status |-> code, detail |-> detail, files |-> {},
     regions_processed |-> 0, images_downloaded |-> 0]

\* crop_svg, lines 82-132, after process_svg_async has returned res
CropSvgResponse(dir, res, fmt) ==
    IF ~res.success THEN HttpError(400, res.error)
    ELSE IF GlobCrops(dir, fmt) = {}
    THEN HttpError(400, "No cropped images were generated")
    ELSE [status |-> 200, detail |-> "",
          files |-> GlobCrops(dir, fmt) \cup GlobMasks(dir),
          regions_processed |-> res.regions_processed,
          images_downloaded |-> res.images_downloaded]

\* the answer; an HTTPException removes the temporary directory at once
CropSvgRespond ==
    /\ pc = "result"
    /\ response' = CropSvgResponse(out_dir, result, output_format)
    /\ out_dir' = IF response'.status = 200 THEN out_dir ELSE EmptyDir
    /\ pc' = "done"
    /\ UNCHANGED <<loopVars, doc, output_format, images_downloaded, result,
                   crop_args, crop_ret, box, parseVars, treeVars, sessVars, dlVars>>

\* cleanup_temp_dir, the background task of a successful request
CleanupTempDir ==
    /\ pc = "done"
    /\ response.status = 200
    /\ out_dir' = EmptyDir
    /\ pc' = "cleaned"
    /\ UNCHANGED <<loopVars, doc, output_format, images_downloaded, result,
                   response, crop_args, crop_ret, box, parseVars, treeVars, sessVars, dlVars>>

Next ==
    \/ ExtractStart
    \/ ProcessElement
    \/ ExtractReturn
    \/ ProcessSvgFinish
    \/ CropSvgRespond
    \/ CleanupTempDir

Spec == Init /\ [][Next]_vars

----------------------------------------------------------------------------
(* SpecTree: find_transform_for_image on chains of ancestors.              *)

AncestorKinds ==
    { Part("g", 0, NoAttrs),
      Part("g", 0, ("transform" :> <<>>)),
      Part("g", 0, ("transform" :> ScaleHalf)),
      Part("g", 0, ("transform" :> ShiftRight)),
      Part("g", 0, ("transform" :> TranslateCall)),
      Part("a", 0, ("transform" :> ScaleHalf)),
      Part("svg", 0, ("transform" :> ShiftRight)),
      Part("g", 0, ("transform" :> MatrixWord)),
      Part("g", 0, ("transform" :> BadMatrix)) }

\* the root, the ancestors from the outermost to the innermost, the image
Chain(ks) ==
    <<Node("svg", 0, NoAttrs)>>
        \o [i \in 1..Len(ks) |-> Node(ks[i].local, i, ks[i].attrs)]
        \o <<Node("image", Len(ks) + 1, GoodImage)>>

ChainDocs == {[parses |-> TRUE, nodes |-> Chain(ks)] : ks \in SeqsUpTo(AncestorKinds, MaxDepth)}

InitTree ==
    /\ IdleCrop
    /\ IdleParse
    /\ IdleLoop
    /\ doc \in ChainDocs
    /\ output_format = "png"
    /\ images_downloaded = 0
    /\ pc = "idle"
    /\ result = NoResult
    /\ response = NoResponse
    /\ image_el = Len(doc.nodes)
    /\ found = NoRet
    /\ IdleSess
    /\ IdleDl

CallFindTransform ==
    /\ found.status = "none"
    /\ found' = find_transform_for_image(doc.nodes, image_el,
                                         build_parent_map(doc.nodes))
    /\ UNCHANGED <<image_el, cropVars, parseVars, runVars, sessVars, dlVars>>

NextTree == CallFindTransform

SpecTree == InitTree /\ [][NextTree]_vars

----------------------------------------------------------------------------
(* SpecConc: NumRuns requests interleave on the one module-level           *)
(* SVGProcessor (app.py line 46).  The event loop switches between the     *)
(* runs at their awaits: while a request of download_svg or download_file  *)
(* is in flight, and at await self.session.close().  The document of run r *)
(* has n_urls[r] image URLs; its servers answer every request (net_ok[r])  *)
(* or none.  Each run works in its own temporary directory, so the steps   *)
(* after the downloads (lines 382-394) do not depend on the other runs and *)
(* are taken here to process at least one region.                          *)

Runs == 1..NumRuns

RunResult(success, error, downloaded) ==
    [success |-> success, error |-> error, images_downloaded |-> downloaded]

NoRun == RunResult(FALSE, "none", 0)

\* lines 81-82 and 101-102: the session the request is made on
EnsureSession == IF session = 0 THEN made + 1 ELSE session

\* whether a request in flight on session s delivers its response: it does
\* on an open session when the server answers; closing the session closes
\* its connections, so on a closed session the response is delivered only
\* if it had arrived before (alive)
Delivered(r, s, alive) == net_ok[r] /\ (s \in closed => alive)

InitConc ==
    /\ IdleCrop
    /\ IdleParse
    /\ IdleRun
    /\ IdleTree
    /\ IdleDl
    /\ session = 0
    /\ closed = {}
    /\ made = 0
    /\ rpc = [r \in Runs |-> "start"]
    /\ using = [r \in Runs |-> 0]
    /\ net_ok \in [Runs -> BOOLEAN]
    /\ n_urls \in [Runs -> 0..MaxImages]
    /\ img_i = [r \in Runs |-> 0]
    /\ dl_count = [r \in Runs |-> 0]
    /\ run_result = [r \in Runs |-> NoRun]

\* download_svg, lines 100-104: the request is made; ClientSession.get on a
\* closed session raises RuntimeError, which line 119 turns into False
SvgGetStart(r) ==
    /\ rpc[r] = "start"
    /\ session' = EnsureSession
    /\ made' = IF session = 0 THEN made + 1 ELSE made
    /\ IF EnsureSession \in closed
       THEN /\ run_result' = [run_result EXCEPT ![r] =
                                 RunResult(FALSE, "Failed to download SVG", 0)]
            /\ rpc' = [rpc EXCEPT ![r] = "finally"]
            /\ UNCHANGED using
       ELSE /\ using' = [using EXCEPT ![r] = EnsureSession]
            /\ rpc' = [rpc EXCEPT ![r] = "svg_get"]
            /\ UNCHANGED run_result
    /\ UNCHANGED <<closed, net_ok, n_urls, img_i, dl_count,
                   cropVars, parseVars, runVars, treeVars, dlVars>>

\* download_svg, lines 104-121, and process_svg_async, lines 368-374
SvgGetEnd(r) ==
    /\ rpc[r] = "svg_get"
    /\ \E alive \in BOOLEAN :
          IF ~Delivered(r, using[r], alive)
          THEN /\ run_result' = [run_result EXCEPT ![r] =
                                    RunResult(FALSE, "Failed to download SVG", 0)]
               /\ rpc' = [rpc EXCEPT ![r] = "finally"]
          ELSE IF n_urls[r] = 0
          THEN /\ run_result' = [run_result EXCEPT ![r] =
                                    RunResult(FALSE, "No images found in SVG", 0)]
               /\ rpc' = [rpc EXCEPT ![r] = "finally"]
          ELSE /\ rpc' = [rpc EXCEPT ![r] = "img_start"]
               /\ UNCHANGED run_result
    /\ using' = [using EXCEPT ![r] = 0]
    /\ UNCHANGED <<session, closed, made, net_ok, n_urls, img_i, dl_count,
                   cropVars, parseVars, runVars, treeVars, dlVars>>

\* download_all_images, line 178, and download_file, lines 80-84
ImgGetStart(r) ==
    /\ rpc[r] = "img_start"
    /\ img_i[r] < n_urls[r]
    /\ session' = EnsureSession
    /\ made' = IF session = 0 THEN made + 1 ELSE made
    /\ IF EnsureSession \in closed
       THEN /\ img_i' = [img_i EXCEPT ![r] = @ + 1]
            /\ UNCHANGED <<using, rpc>>
       ELSE /\ using' = [using EXCEPT ![r] = EnsureSession]
            /\ rpc' = [rpc EXCEPT ![r] = "img_get"]
            /\ UNCHANGED img_i
    /\ UNCHANGED <<closed, net_ok, n_urls, dl_count, run_result,
                   cropVars, parseVars, runVars, treeVars, dlVars>>

\* download_file, lines 84-96, and download_all_images, lines 178-179
ImgGetEnd(r) ==
    /\ rpc[r] = "img_get"
    /\ \E alive \in BOOLEAN :
          dl_count' = [dl_count EXCEPT ![r] =
                          IF Delivered(r, using[r], alive) THEN @ + 1 ELSE @]
    /\ img_i' = [img_i EXCEPT ![r] = @ + 1]
    /\ using' = [using EXCEPT ![r] = 0]
    /\ rpc' = [rpc EXCEPT ![r] = "img_start"]
    /\ UNCHANGED <<session, closed, made, net_ok, n_urls, run_result,
                   cropVars, parseVars, runVars, treeVars, dlVars>>

\* download_all_images, line 181, and process_svg_async, lines 377-394
ImagesDone(r) ==
    /\ rpc[r] = "img_start"
    /\ img_i[r] = n_urls[r]
    /\ run_result' = [run_result EXCEPT ![r] =
                         IF dl_count[r] = 0
                         THEN RunResult(FALSE, "Failed to download any images", 0)
                         ELSE RunResult(TRUE, "", dl_count[r])]
    /\ rpc' = [rpc EXCEPT ![r] = "finally"]
    /\ UNCHANGED <<session, closed, made, using, net_ok, n_urls, img_i, dl_count,
                   cropVars, parseVars, runVars, treeVars, dlVars>>

\* lines 399-401: if self.session: await self.session.close()
FinallyClose(r) ==
    /\ rpc[r] = "finally"
    /\ IF session = 0
       THEN /\ rpc' = [rpc EXCEPT ![r] = "done"]
            /\ UNCHANGED closed
       ELSE /\ closed' = closed \cup {session}
            /\ rpc' = [rpc EXCEPT ![r] = "clear"]
    /\ UNCHANGED <<session, made, using, net_ok, n_urls, img_i, dl_count,
                   run_result, cropVars, parseVars, runVars, treeVars, dlVars>>

\* line 402: self.session = None
FinallyClear(r) ==
    /\ rpc[r] = "clear"
    /\ session' = 0
    /\ rpc' = [rpc EXCEPT ![r] = "done"]
    /\ UNCHANGED <<closed, made, using, net_ok, n_urls, img_i, dl_count,
                   run_result, cropVars, parseVars, runVars, treeVars, dlVars>>

NextConc ==
    \/ \E r \in Runs : SvgGetStart(r)
    \/ \E r \in Runs : SvgGetEnd(r)
    \/ \E r \in Runs : ImgGetStart(r)
    \/ \E r \in Runs : ImgGetEnd(r)
    \/ \E r \in Runs : ImagesDone(r)
    \/ \E r \in Runs : FinallyClose(r)
    \/ \E r \in Runs : FinallyClear(r)

SpecConc == InitConc /\ [][NextConc]_vars

----------------------------------------------------------------------------
(* SpecRewrite: download_all_images followed by                            *)
(* update_svg_with_local_images, on the list of image URLs that            *)
(* extract_image_urls returned (not empty, lines 373-374).  URLs, file     *)
(* names and locators are sequences of characters.  The document is        *)
(* modelled by its image locators, the places where the URLs occur.        *)

\* the least index of a character of s that is in cs, Len(s) + 1 if none
FirstIn(s, cs) ==
    LET hits == {i \in 1..Len(s) : s[i] \in cs}
    IN  IF hits = {} THEN Len(s) + 1 ELSE CHOOSE i \in hits : \A j \in hits : i <= j

SchemeMark == <<":", "/", "/">>

\* urllib.parse.urlparse(url).path: what follows the network location, up
\* to the query or the fragment
PathOf(url) ==
    LET marks == {i \in 1..Len(url) : OccursAt(url, SchemeMark, i)}
        from  == IF marks = {} THEN 1
                 ELSE (CHOOSE i \in marks : \A j \in marks : i <= j) + 3
        rest  == SubSeq(url, from, Len(url))
        start == IF marks = {} THEN 1 ELSE FirstIn(rest, {"/", "?", "#"})
        tail  == SubSeq(rest, start, Len(rest))
    IN  SubSeq(tail, 1, FirstIn(tail, {"?", "#"}) - 1)

\* str.split(c): the empty parts are kept
RECURSIVE SplitOn(_, _)
SplitOn(s, c) ==
    IF FirstIn(s, {c}) > Len(s) THEN <<s>>
    ELSE <<SubSeq(s, 1, FirstIn(s, {c}) - 1)>>
             \o SplitOn(SubSeq(s, FirstIn(s, {c}) + 1, Len(s)), c)

UpperCase ==
    <<"A", "B", "C", "D", "E", "F", "G", "H", "I", "J", "K", "L", "M",
      "N", "O", "P", "Q", "R", "S", "T", "U", "V", "W", "X", "Y", "Z">>

LowerCase ==
    <<"a", "b", "c", "d", "e", "f", "g", "h", "i", "j", "k", "l", "m",
      "n", "o", "p", "q", "r", "s", "t", "u", "v", "w", "x", "y", "z">>

\* str.lower()
Lower(s) ==
    [i \in 1..Len(s) |->
        IF \E k \in 1..Len(UpperCase) : UpperCase[k] = s[i]
        THEN LowerCase[CHOOSE k \in 1..Len(UpperCase) : UpperCase[k] = s[i]]
        ELSE s[i]]

ImageExts ==
    { <<".", "j", "p", "g">>, <<".", "j", "p", "e", "g">>,
      <<".", "p", "n", "g">>, <<".", "g", "i", "f">> }

DotJpeg == <<".", "j", "p", "e", "g">>

ImageJpeg == <<"i", "m", "a", "g", "e">> \o DotJpeg

\* lines 145-156
extract_filename_from_url(url) ==
    LET path_parts == SplitOn(PathOf(url), "/")
        hits == {i \in 1..Len(path_parts) :
                    /\ Contains(path_parts[i], <<".">>)
                    /\ \E ext \in ImageExts : Contains(Lower(path_parts[i]), ext)}
    IN  IF hits # {}
        THEN path_parts[CHOOSE i \in hits : \A j \in hits : j <= i]
        ELSE IF path_parts[Len(path_parts)] # <<>>
        THEN path_parts[Len(path_parts)] \o DotJpeg
        ELSE ImageJpeg

\* lines 171-175 and 194-198: the file name with the suffix _<i>
IndexedName(filename, i) ==
    IF LastDot(filename) = 0
    THEN filename \o <<"_", ToString(i)>>
    ELSE StemOf(filename) \o <<"_", ToString(i), ".">>
             \o SubSeq(filename, LastDot(filename) + 1, Len(filename))

\* lines 166-176: the destination of the download of the i-th URL
\* (i counts from 0)
DestName(dir, url, i) ==
    LET filename == extract_filename_from_url(url)
    IN  IF Exists(dir, Str(filename)) THEN IndexedName(filename, i) ELSE filename

\* lines 189-201: the name the i-th URL is replaced by
LocalName(dir, url, i) ==
    LET filename == extract_filename_from_url(url)
        test_filename == IndexedName(filename, i)
    IN  IF ~Exists(dir, Str(filename)) /\ Exists(dir, Str(test_filename))
        THEN test_filename
        ELSE filename

\* str.replace(old, new) for a non-empty old
RECURSIVE ReplaceAll(_, _, _)
ReplaceAll(s, old, new) ==
    IF Len(s) < Len(old) THEN s
    ELSE IF OccursAt(s, old, 1)
    THEN new \o ReplaceAll(SubSeq(s, Len(old) + 1, Len(s)), old, new)
    ELSE <<Head(s)>> \o ReplaceAll(Tail(s), old, new)

\* the loop of lines 188-203 from the i-th URL on
RECURSIVE Rewrite(_, _, _, _)
Rewrite(content, urls, i, dir) ==
    IF i >= Len(urls) THEN content
    ELSE Rewrite([k \in 1..Len(content) |->
                     ReplaceAll(content[k], urls[i + 1],
                                LocalName(dir, urls[i + 1], i))],
                 urls, i + 1, dir)

Origin1 == <<"h", "t", "t", "p", ":", "/", "/", "h">>

Origin2 == <<"h", "t", "t", "p", ":", "/", "/", "k">>

Urls ==
    { Origin1 \o <<"/", "a", ".", "p", "n", "g">>,
      Origin2 \o <<"/", "a", ".", "p", "n", "g">>,
      Origin1 \o <<"/", "a", "_", "2", ".", "p", "n", "g">>,
      Origin1 \o <<"/", "c">>,
      Origin1 \o <<"/">>,
      Origin1 \o <<"/", "a", ".", "p", "n", "g", "/", "f">>,
      Origin2 \o <<"/", "B", ".", "P", "N", "G", "?", "v">> }

\* view.svg has been downloaded
SvgOnly == ("view.svg" :> <<>>)

InitRewrite ==
    /\ IdleCrop
    /\ IdleParse
    /\ IdleRun
    /\ IdleTree
    /\ IdleSess
    /\ image_urls \in SeqsUpTo(Urls, MaxUrls) \ {<<>>}
    /\ temp_dir = SvgOnly
    /\ locators = image_urls
    /\ written = [k \in 1..Len(image_urls) |-> <<>>]
    /\ dl_i = 0
    /\ dl_pc = "download"

\* one iteration of the loop of download_all_images (lines 165-179);
\* download_file writes the file or fails
DownloadImage ==
    /\ dl_pc = "download"
    /\ dl_i < Len(image_urls)
    /\ LET url  == image_urls[dl_i + 1]
           dest == DestName(temp_dir, url, dl_i)
       IN  \E ok \in BOOLEAN :
              IF ok
              THEN /\ temp_dir' = WriteFile(temp_dir, Str(dest), url)
                   /\ written' = [written EXCEPT ![dl_i + 1] = dest]
              ELSE UNCHANGED <<temp_dir, written>>
    /\ dl_i' = dl_i + 1
    /\ UNCHANGED <<image_urls, locators, dl_pc,
                   cropVars, parseVars, runVars, treeVars, sessVars>>

\* downloaded_count
Downloaded == Cardinality({k \in 1..Len(written) : written[k] # <<>>})

\* lines 378-379: no image was downloaded
DownloadsFailed ==
    /\ dl_pc = "download"
    /\ dl_i = Len(image_urls)
    /\ Downloaded = 0
    /\ dl_pc' = "failed"
    /\ UNCHANGED <<image_urls, temp_dir, locators, written, dl_i,
                   cropVars, parseVars, runVars, treeVars, sessVars>>

\* update_svg_with_local_images (lines 183-208)
UpdateSvg ==
    /\ dl_pc = "download"
    /\ dl_i = Len(image_urls)
    /\ Downloaded > 0
    /\ locators' = Rewrite(locators, image_urls, 0, temp_dir)
    /\ dl_pc' = "done"
    /\ UNCHANGED <<image_urls, temp_dir, written, dl_i,
                   cropVars, parseVars, runVars, treeVars, sessVars>>

NextRewrite ==
    \/ DownloadImage
    \/ DownloadsFailed
    \/ UpdateSvg

SpecRewrite == InitRewrite /\ [][NextRewrite]_vars

----------------------------------------------------------------------------
(* Claims about transform parsing (checked under SpecParse).               *)

\* the values of the first matrix(...) token of s, <<>> without a token
TokenValues(s) ==
    IF MatrixGroup(s) = <<>> THEN <<>>
    ELSE Split(ReplaceCommas(MatrixGroup(s)[1]))

\* s holds a matrix(...) token with exactly six numeric values
SixNumeric(s) ==
    /\ Len(TokenValues(s)) = 6
    /\ \A i \in 1..6 : ParseFloat(TokenValues(s)[i]).status = "returned"

SixValues(s) == [i \in 1..6 |-> ParseFloat(TokenValues(s)[i]).value]

\* C5: parse_matrix and parse_transform never raise: parse_matrix returns
\* the six numbers of a matrix(...) token with exactly six numeric values
\* and the identity otherwise; parse_transform returns (tx, ty) of such a
\* token and (0, 0) otherwise.
C5_NeverRaises ==
    /\ matrix_ret.status # "raised"
    /\ translate_ret.status # "raised"
    /\ matrix_ret.status = "returned" =>
          matrix_ret.value = IF SixNumeric(transform_str)
                             THEN SixValues(transform_str) ELSE Identity
    /\ translate_ret.status = "returned" =>
          translate_ret.value =
              IF SixNumeric(transform_str)
              THEN <<SixValues(transform_str)[5], SixValues(transform_str)[6]>>
              ELSE <<Rat(0), Rat(0)>>

\* what C5 says apart from "never raises": every call that returns gives the
\* six numbers or the identity as stated (kept to show where C5 fails)
C5_ReturnedValues ==
    /\ matrix_ret.status = "returned" =>
          matrix_ret.value = IF SixNumeric(transform_str)
                             THEN SixValues(transform_str) ELSE Identity
    /\ translate_ret.status = "returned" =>
          translate_ret.value =
              IF SixNumeric(transform_str)
              THEN <<SixValues(transform_str)[5], SixValues(transform_str)[6]>>
              ELSE <<Rat(0), Rat(0)>>

----------------------------------------------------------------------------
(* Claims about precise_crop_image (checked under SpecCrop).               *)

RMax(p, q) == IF RLeq(q, p) THEN p ELSE q

RMin(p, q) == IF RLeq(p, q) THEN p ELSE q

\* rounding toward zero, written with floor
TruncOf(p) == IF RLeq(Rat(0), p) THEN FloorOf(p) ELSE -FloorOf(RSub(Rat(0), p))

\* pixelX = ((cx - tx)/a - ix) * rw/iw and pixelW = (cw/a) * rw/iw, for one
\* axis: c, len the clip position and extent, t, s the translation and
\* scale, i, ilen the placement position and extent, r the raster extent
PixelPos(c, t, s, i, ilen, r) ==
    RMul(RSub(RDiv(RSub(c, t), s), i), RDiv(Rat(r), ilen))

PixelLen(len, s, ilen, r) == RMul(RDiv(len, s), RDiv(Rat(r), ilen))

CallSize == out_dir[Str(crop_args.image_filename)].size

PixelX == PixelPos(crop_args.clip_rect[1], crop_args.transform_matrix[5],
                   crop_args.transform_matrix[1], crop_args.image_attrs[1],
                   crop_args.image_attrs[3], CallSize[1])

PixelY == PixelPos(crop_args.clip_rect[2], crop_args.transform_matrix[6],
                   crop_args.transform_matrix[4], crop_args.image_attrs[2],
                   crop_args.image_attrs[4], CallSize[2])

PixelW == PixelLen(crop_args.clip_rect[3], crop_args.transform_matrix[1],
                   crop_args.image_attrs[3], CallSize[1])

PixelH == PixelLen(crop_args.clip_rect[4], crop_args.transform_matrix[4],
                   crop_args.image_attrs[4], CallSize[2])

\* the call has computed a pixel box
BoxComputed == crop_ret # "none" /\ box # NoBox

CropFiles(dir) == {n \in DOMAIN dir : dir[n].kind = "crop"}

\* C1 (as stated): whenever precise_crop_image computes a pixel box, it is
\* x1 = floor(max(0, pixelX)), y1 = floor(max(0, pixelY)),
\* x2 = floor(min(rw, pixelX + pixelW)), y2 = floor(min(rh, pixelY + pixelH)).
C1_FloorBox ==
    BoxComputed =>
        box = <<FloorOf(RMax(Rat(0), PixelX)),
                FloorOf(RMax(Rat(0), PixelY)),
                FloorOf(RMin(Rat(CallSize[1]), RAdd(PixelX, PixelW))),
                FloorOf(RMin(Rat(CallSize[2]), RAdd(PixelY, PixelH)))>>

\* C1 (amended): whenever precise_crop_image computes a pixel box, it is
\* x1 = floor(max(0, pixelX)), y1 = floor(max(0, pixelY)),
\* x2 = min(rw, trunc(pixelX + pixelW)), y2 = min(rh, trunc(pixelY + pixelH)),
\* trunc rounding toward zero; and the scenario of section 8 gives the box
\* (200, 200, 400, 400).
C1_TruncBox ==
    /\ BoxComputed =>
        box = <<FloorOf(RMax(Rat(0), PixelX)),
                FloorOf(RMax(Rat(0), PixelY)),
                Min2(CallSize[1], TruncOf(RAdd(PixelX, PixelW))),
                Min2(CallSize[2], TruncOf(RAdd(PixelY, PixelH)))>>
    /\ (crop_ret # "none" /\ crop_args = ScenarioArgs /\ out_dir # EmptyDir
            /\ CallSize = <<400, 400>>)
        => box = <<200, 200, 400, 400>>

\* C1 witness: the scenario of section 8 has been cropped.
C1_Witness ==
    /\ crop_args = ScenarioArgs
    /\ crop_ret = "True"
    /\ box = <<200, 200, 400, 400>>

\* C2: every crop file holds a box with 0 <= x1 < x2 <= rw and
\* 0 <= y1 < y2 <= rh, and a computed box with x2 <= x1 or y2 <= y1 makes the
\* call return False with no crop file in the directory.
C2_AppliedBoxValid ==
    /\ \A n \in CropFiles(out_dir) :
          LET b == out_dir[n].box
              sz == out_dir[out_dir[n].source].size
          IN  /\ 0 <= b[1] /\ b[1] < b[3] /\ b[3] <= sz[1]
              /\ 0 <= b[2] /\ b[2] < b[4] /\ b[4] <= sz[2]
    /\ crop_ret = "True" => box # NoBox /\ CropFiles(out_dir) # {}
    /\ (BoxComputed /\ (box[3] <= box[1] \/ box[4] <= box[2]))
          => crop_ret = "False" /\ CropFiles(out_dir) = {}

\* C2 witness: a box that is empty in y only was computed and dropped.
C2_Witness ==
    /\ BoxComputed
    /\ box[1] < box[3]
    /\ box[4] <= box[2]
    /\ crop_ret = "False"

\* the interval of local coordinates that a clip position and extent cover
\* on one axis is disjoint from the closed interval [i, i + ilen]
AxisOutside(c, len, t, s, i, ilen) ==
    LET p  == RDiv(RSub(c, t), s)
        q  == RAdd(p, RDiv(len, s))
        lo == RMin(p, q)
        hi == RMax(p, q)
    IN  RLess(hi, i) \/ RLess(RAdd(i, ilen), lo)

ClipOutsideImage ==
    LET a == crop_args
    IN  /\ ~RIsZero(a.transform_matrix[1]) /\ ~RIsZero(a.transform_matrix[4])
        /\ RLess(Rat(0), a.image_attrs[3]) /\ RLess(Rat(0), a.image_attrs[4])
        /\ \/ AxisOutside(a.clip_rect[1], a.clip_rect[3], a.transform_matrix[5],
                          a.transform_matrix[1], a.image_attrs[1], a.image_attrs[3])
           \/ AxisOutside(a.clip_rect[2], a.clip_rect[4], a.transform_matrix[6],
                          a.transform_matrix[4], a.image_attrs[2], a.image_attrs[4])

\* C8: a clip rectangle that lies, in the image group's local coordinates
\* (a, d non-zero, iw, ih positive), entirely outside the declared box makes
\* precise_crop_image return False and write no crop file.
C8_OutsideDropped ==
    (crop_ret # "none" /\ ClipOutsideImage)
        => crop_ret = "False" /\ CropFiles(out_dir) = {}

\* C8 witness: the raster exists, the rectangle lies outside the declared
\* box, a box was computed and the call returned False.
C8_Witness ==
    /\ ClipOutsideImage
    /\ BoxComputed
    /\ crop_ret = "False"

----------------------------------------------------------------------------
(* Claims about find_transform_for_image (checked under SpecTree).         *)

\* the ancestors of element i, the nearest first
RECURSIVE AncestorsOf(_, _)
AncestorsOf(nodes, i) ==
    IF nodes[i].parent = 0 THEN <<>>
    ELSE <<nodes[i].parent>> \o AncestorsOf(nodes, nodes[i].parent)

\* a grouping (g) element with a non-empty transform containing 'matrix'
Qualifies(el) ==
    /\ el.tag[2] = "g"
    /\ HasAttr(el, "transform")
    /\ el.attrs["transform"] # <<>>
    /\ Contains(el.attrs["transform"], MatrixWord)

\* the nearest qualifying ancestor of element i, 0 when there is none
NearestQualifying(nodes, i) ==
    LET up == AncestorsOf(nodes, i)
        qs == {k \in 1..Len(up) : Qualifies(nodes[up[k]])}
    IN  IF qs = {} THEN 0 ELSE up[CHOOSE k \in qs : \A l \in qs : k <= l]

\* the transform an attribute value stands for: its six numbers, else the
\* identity
ParsedTransform(ts) == IF SixNumeric(ts) THEN SixValues(ts) ELSE Identity

\* C10: find_transform_for_image returns the parsed transform of the
\* nearest ancestor that is a g element with a non-empty transform
\* containing 'matrix', and the identity when no ancestor qualifies.
C10_NearestGroupTransform ==
    found.status # "none" =>
        /\ found.status = "returned"
        /\ found.value =
             IF NearestQualifying(doc.nodes, image_el) = 0 THEN Identity
             ELSE ParsedTransform(
                    doc.nodes[NearestQualifying(doc.nodes, image_el)].attrs["transform"])

----------------------------------------------------------------------------
(* Claims about extract_masks_and_crop_images and the request (checked     *)
(* under Spec).                                                            *)

\* extract_masks_and_crop_images has just ended, by return or by exception
ExtractEnded == pc \in {"returned", "raised"}

\* the working directory holds the files of the run
FilesKept == pc \in {"loop", "returned", "raised", "result"}

\* the elements that carry a clip-path attribute, in document order
Annotated == FindAllWithAttr(doc.nodes, 1, "clip-path")

\* the clip-path of element el names a registered definition
Resolves(el) ==
    /\ ClipRef(doc.nodes[el]) # <<>>
    /\ ClipRef(doc.nodes[el])[1] \in DOMAIN clip_paths

Resolving == SelectSeq(Annotated, Resolves)

\* C3: when extract_masks_and_crop_images ends, it has written one mask
\* file and counted one region for every element that carries a clip-path
\* attribute (stated here for the documents in which every such element
\* names a registered clip rectangle).
C3_OneMaskPerElement ==
    (ExtractEnded /\ doc.parses /\ \A i \in 1..Len(Annotated) : Resolves(Annotated[i]))
        => /\ Cardinality(GlobMasks(out_dir)) = Len(Annotated)
           /\ extract_ret.status = "returned"
           /\ extract_ret.value[1] = Len(Annotated)

\* C4: no exception leaves extract_masks_and_crop_images because of one
\* region, and it returns the count of the regions processed: one for
\* every clip-annotated element that names a registered clip rectangle.
C4_NoRegionAborts ==
    /\ extract_ret.status # "raised"
    /\ (pc = "returned" /\ doc.parses)
          => /\ extract_ret.value[1] = Len(Resolving)
             /\ Len(regions) = Len(Resolving)

\* C6: when the document parses and extract_masks_and_crop_images reports
\* at least one processed region, the request is answered as a success,
\* also when every crop was skipped.
C6_SkippedCropNotFailure ==
    (/\ pc \in {"done", "cleaned"}
     /\ doc.parses
     /\ extract_ret.status = "returned"
     /\ extract_ret.value[1] >= 1)
        => response.status = 200

CroppedRegions == {i \in 1..Len(regions) : regions[i].crop = "True"}

\* C7: the masks are numbered 0, 1, 2, ... in document order, every crop
\* file carries the index of the mask of its element, and the crops of
\* different elements are different files.
C7_IndicesPair ==
    FilesKept =>
        /\ GlobMasks(out_dir) = {MaskFilename(i - 1) : i \in 1..Len(regions)}
        /\ \A i \in 1..Len(regions) :
              /\ regions[i].index = i - 1
              /\ out_dir[MaskFilename(i - 1)].element = regions[i].element
              /\ out_dir[MaskFilename(i - 1)].region = i - 1
              /\ \A j \in 1..Len(regions) :
                    i < j => regions[i].element < regions[j].element
        /\ \A n \in CropFiles(out_dir) :
              \E i \in CroppedRegions : out_dir[n].region = regions[i].index
        /\ Cardinality(CropFiles(out_dir)) = Cardinality(CroppedRegions)

\* C7 witness: two elements have cropped the same raster into two files.
C7_Witness ==
    /\ FilesKept
    /\ Cardinality(CroppedRegions) = 2
    /\ Cardinality(CropFiles(out_dir)) = 2
    /\ \A n \in CropFiles(out_dir) : out_dir[n].source = Str(RasterName)

ClipPathEls == FindAll(doc.nodes, 1, "clipPath")

RectOf(el) == FindChild(doc.nodes, el, "rect")

\* attribute name of element el is absent or a number
NumericIfPresent(el, name) ==
    HasAttr(doc.nodes[el], name)
        => ParseFloat(Strip(doc.nodes[el].attrs[name])).status = "returned"

\* a definition that can be registered: it has an id and a rectangle
Registrable(el) == Get(doc.nodes[el], "id", <<>>) # <<>> /\ RectOf(el) # 0

\* its rectangle has width and height and no non-numeric attribute
WellFormed(el) ==
    /\ Registrable(el)
    /\ LET r    == RectOf(el)
           toks == TokenValues(Get(doc.nodes[r], "transform", <<>>))
       IN  /\ HasAttr(doc.nodes[r], "width")
           /\ HasAttr(doc.nodes[r], "height")
           /\ \A name \in {"x", "y", "width", "height"} : NumericIfPresent(r, name)
           /\ \A i \in 1..Len(toks) : ParseFloat(toks[i]).status = "returned"

NumberOf(el, name) ==
    IF HasAttr(doc.nodes[el], name)
    THEN ParseFloat(Strip(doc.nodes[el].attrs[name])).value ELSE Rat(0)

\* (x + tx, y + ty, width, height) of a well-formed definition
EntryOf(el) ==
    LET r  == RectOf(el)
        ts == Get(doc.nodes[r], "transform", <<>>)
        tx == IF SixNumeric(ts) THEN SixValues(ts)[5] ELSE Rat(0)
        ty == IF SixNumeric(ts) THEN SixValues(ts)[6] ELSE Rat(0)
    IN  <<NormR(RAdd(NumberOf(r, "x"), tx)), NormR(RAdd(NumberOf(r, "y"), ty)),
          NumberOf(r, "width"), NumberOf(r, "height")>>

WellFormedEls == SelectSeq(ClipPathEls, WellFormed)

\* C9: the registry holds exactly the entries of the well-formed
\* definitions, each (x + tx, y + ty, width, height), as if the definitions
\* lacking width or height or having a non-numeric attribute were absent.
C9_BadDefsSkipped ==
    (doc.parses /\ pc \in {"loop", "returned", "raised", "result", "done", "cleaned"})
        => LET wf  == WellFormedEls
               ids == [i \in 1..Len(wf) |-> doc.nodes[wf[i]].attrs["id"]]
           IN  /\ DOMAIN clip_paths = {ids[i] : i \in 1..Len(wf)}
               /\ \A i \in 1..Len(wf) :
                     (\A j \in i + 1..Len(wf) : ids[j] # ids[i])
                         => clip_paths[ids[i]] = EntryOf(wf[i])

\* C9 witness: a definition without width precedes a well-formed one, and
\* the registry holds the well-formed one.
C9_Witness ==
    /\ pc = "loop"
    /\ \E i \in 1..Len(ClipPathEls) : \E j \in i + 1..Len(ClipPathEls) :
          /\ Registrable(ClipPathEls[i])
          /\ ~HasAttr(doc.nodes[RectOf(ClipPathEls[i])], "width")
          /\ WellFormed(ClipPathEls[j])
          /\ doc.nodes[ClipPathEls[j]].attrs["id"] \in DOMAIN clip_paths

----------------------------------------------------------------------------
(* Claims about the shared session (checked under SpecConc).               *)

\* C11: the end of one run never closes the session another run has a
\* request in flight on, and no run fails or loses a download because of
\* another run's end: a run whose servers answer and whose document has
\* images ends in success with every image downloaded.
C11_NoInterference ==
    \A r \in Runs :
        /\ using[r] # 0 => using[r] \notin closed
        /\ (rpc[r] = "done" /\ net_ok[r] /\ n_urls[r] >= 1)
              => /\ run_result[r].success
                 /\ run_result[r].images_downloaded = n_urls[r]

----------------------------------------------------------------------------
(* Claims about the download and the rewrite (checked under SpecRewrite).  *)

\* the download of the k-th URL wrote file name, and the file still holds
\* the content of that URL
WroteFor(k, name) ==
    /\ written[k] = name
    /\ Exists(temp_dir, Str(name))
    /\ temp_dir[Str(name)] = image_urls[k]

\* C12: after download_all_images and update_svg_with_local_images, the
\* locator of every image whose URL was downloaded names a file that
\* download_all_images wrote for that same URL.
C12_LocatorsNameDownloads ==
    dl_pc = "done" =>
        \A k \in 1..Len(image_urls) :
            (\E j \in 1..Len(image_urls) :
                image_urls[j] = image_urls[k] /\ written[j] # <<>>)
            => \E j \in 1..Len(image_urls) :
                  /\ image_urls[j] = image_urls[k]
                  /\ WroteFor(j, locators[k])

====
